---- MODULE Spec2Model ----
(***************************************************************************)
(* Stock monitor: the crossover engine (engine.check_crossover), the cycle *)
(* runner (engine.run_checks), the scheduler and the force-check endpoint  *)
(* (main.py), and the watch_list / logs tables (database.py).              *)
(*                                                                         *)
(* Prices and averages are floats in the source; they are modelled as      *)
(* naturals 0..MaxVal and the distance test is evaluated exactly, as a     *)
(* comparison of cross products.  The columns company_name, dma_period,    *)
(* change, change_percent and last_checked never influence a decision and  *)
(* are left out of the rows.                                               *)
(***************************************************************************)
EXTENDS Integers, Sequences, FiniteSets, TLC

\* ---------------------------------------------------------------- bounds
MaxVal == 2        \* prices and averages range over 0..MaxVal
MaxLogs == 2       \* rows the logs table may hold
MaxFetches == 2    \* snapshots fetched in one behaviour of Spec
MaxCycles == 2     \* run_checks passes started in one behaviour
MaxRequests == 2   \* watch-list API requests served in one behaviour

Symbols == {"A", "B"}
SymbolOrder == <<"A", "B">>          \* ORDER BY symbol
Thresholds == {0, 100}               \* alert_threshold, in percent
Values == 0..MaxVal
Runners == {"sched", "force"}        \* threads that execute run_checks
Tokens == {"none", "good", "bad"}    \* X-Admin-Token header of a request

VARIABLES
    fetches,      \* snapshots requested from the data source so far
    watch_list,   \* table watch_list: symbol -> row
    logs,         \* table logs, in insertion order
    admin_token,  \* environment variable ADMIN_TOKEN: "none" when not set
    pc,           \* position of each runner inside run_checks
    watchlist,    \* run_checks: what is left of the list read by
                  \* get_watchlist(); its head is the loop's `item`
    data,         \* run_checks: result of fetch_latest_snapshot
    sent,         \* outcome of send_alert_email for the runner's current item
    raised,       \* exception that ended the runner's last pass, or "none"
    cycles,       \* passes started so far
    response,     \* the last /force-check exchange: the X-Admin-Token header
                  \* received and the status returned (0: none yet)
    request,      \* POST /watchlist in progress, between its read and its upsert
    requests,     \* watch-list requests served so far
    pending       \* per symbol, what the application log says of its last
                  \* decision: the direction of the crossing that was
                  \* "ignored" as weak, "none" once a state has been stored

vars == <<fetches, watch_list, logs, admin_token, pc, watchlist, data, sent,
          raised, cycles, response, request, requests, pending>>

\* ------------------------------------------------------------ data shapes
None == [ok |-> FALSE, price |-> 0, dma |-> 0]
Snapshot(p, d) == [ok |-> TRUE, price |-> p, dma |-> d]
NoResponse == [status |-> 0, x_admin_token |-> "none"]
NoRequest == [active |-> FALSE, symbol |-> "A", alert_threshold |-> 0,
              last_price |-> 0, last_dma |-> 0]

Abs(x) == IF x < 0 THEN -x ELSE x

\* database.get_watchlist: every row, ordered by symbol
get_watchlist(t) ==
    LET present(s) == s \in DOMAIN t
        row(s) == [symbol |-> s, alert_threshold |-> t[s].alert_threshold,
                   last_price |-> t[s].last_price, last_dma |-> t[s].last_dma]
        syms == SelectSeq(SymbolOrder, present)
    IN [i \in 1..Len(syms) |-> row(syms[i])]

\* Mutation of update_market_state: only the price column is written
update_price_only(t, symbol, price, dma) ==
    [t EXCEPT ![symbol] = [@ EXCEPT !.last_price = price]]

\* database.update_market_state: Table.update raises NotFoundError when the
\* row is gone; otherwise both columns are written in one statement
update_market_state(t, symbol, price, dma) ==
    [t EXCEPT ![symbol] = [@ EXCEPT !.last_price = price, !.last_dma = dma]]

\* database.add_log
add_log(l, symbol, alert_type) ==
    Append(l, [symbol |-> symbol, alert_type |-> alert_type])

\* notifier.send_alert_email: never raises; False without credentials, for a
\* non-positive price or average, or when the SMTP exchange fails
send_alert_email(price, dma_value, credentials, smtp_ok) ==
    IF ~credentials THEN FALSE
    ELSE IF price <= 0 \/ dma_value <= 0 THEN FALSE
    ELSE smtp_ok

\* ------------------------------------------------- engine.check_crossover
\* Mutation of Bootstrapping: `and` written for `or`
BootstrappingBoth(item) == item.last_price = 0 /\ item.last_dma = 0

\* `not prev_price or not prev_dma`: 0, 0.0 and None are all falsy
Bootstrapping(item) == item.last_price = 0 \/ item.last_dma = 0

\* Mutation of crossed_above: the current comparison turned round
crossed_above_reversed(item, d) ==
    item.last_price < item.last_dma /\ d.price < d.dma

\* Mutation of crossed_below: `<=` written for `<` on the current side
crossed_below_or_level(item, d) ==
    item.last_price > item.last_dma /\ d.price <= d.dma

\* Mutation of crossed_above: the stored comparison turned round, so that a
\* price staying above its average counts as a crossing
crossed_above_stored_reversed(item, d) ==
    item.last_price > item.last_dma /\ d.price > d.dma

\* Mutation of crossed_above: `>=` written for `>` on the current side
crossed_above_or_level(item, d) ==
    item.last_price < item.last_dma /\ d.price >= d.dma

\* line 142
crossed_above(item, d) == item.last_price < item.last_dma /\ d.price > d.dma
\* line 143
crossed_below(item, d) == item.last_price > item.last_dma /\ d.price < d.dma

\* Mutation of DistanceBelowRequired: `<=` written for `<`
DistanceNotAboveRequired(d, threshold_percent) ==
    Abs(d.price - d.dma) * 100 <= threshold_percent * d.dma

\* distance < required_distance, for curr_dma > 0:
\*   abs(curr_price - curr_dma) / curr_dma < threshold_percent / 100.0
DistanceBelowRequired(d, threshold_percent) ==
    Abs(d.price - d.dma) * 100 < threshold_percent * d.dma

\* Mutation of Outcome: the superseded policy, a weak cross advances the
\* state like a step without a cross
OutcomeWeakAdvances(item, d) ==
    IF Bootstrapping(item) THEN "Bootstrap"
    ELSE IF crossed_above(item, d) \/ crossed_below(item, d)
         THEN IF d.dma = 0 THEN "ZeroDivisionError"
              ELSE IF DistanceBelowRequired(d, item.alert_threshold)
                   THEN "NoCross"
                   ELSE IF crossed_above(item, d) THEN "BULLISH" ELSE "BEARISH"
         ELSE "NoCross"

\* The branch check_crossover takes for (watchlist_item, current_data)
Outcome(item, d) ==
    IF Bootstrapping(item) THEN "Bootstrap"
    ELSE IF crossed_above(item, d) \/ crossed_below(item, d)
         THEN IF d.dma = 0 THEN "ZeroDivisionError"
              ELSE IF DistanceBelowRequired(d, item.alert_threshold)
                   THEN "WeakCross"
                   ELSE IF crossed_above(item, d) THEN "BULLISH" ELSE "BEARISH"
         ELSE "NoCross"

\* ------------------------------------------------------------------ Init
\* pc: "idle" (no pass running), "start" (run_checks handed to a thread),
\* "fetch", "check", "update" (between _trigger and the state update), "sleep"
Init ==
    /\ watch_list = <<>>
    /\ fetches = 0
    /\ logs = <<>>
    /\ admin_token \in {"none", "good"}
    /\ pc = [r \in Runners |-> "idle"]
    /\ watchlist = [r \in Runners |-> <<>>]
    /\ data = [r \in Runners |-> None]
    /\ sent = [r \in Runners |-> "none"]
    /\ raised = [r \in Runners |-> "none"]
    /\ cycles = 0
    /\ response = NoResponse
    /\ request = NoRequest
    /\ requests = 0
    /\ pending = [s \in Symbols |-> "none"]

Item(r) == Head(watchlist[r])

\* An exception leaves run_checks: the pass is over, its locals are gone
Raise(r, exception) ==
    /\ pc' = [pc EXCEPT ![r] = "idle"]
    /\ raised' = [raised EXCEPT ![r] = exception]
    /\ watchlist' = [watchlist EXCEPT ![r] = <<>>]
    /\ data' = [data EXCEPT ![r] = None]
    /\ sent' = [sent EXCEPT ![r] = "none"]

\* run_checks returns normally
Return(r) ==
    /\ pc' = [pc EXCEPT ![r] = "idle"]
    /\ raised' = [raised EXCEPT ![r] = "none"]
    /\ watchlist' = [watchlist EXCEPT ![r] = <<>>]
    /\ data' = [data EXCEPT ![r] = None]
    /\ sent' = [sent EXCEPT ![r] = "none"]

\* ------------------------------------------------------------ main.py
\* run_scheduler: one iteration of the loop hands run_checks to a thread and
\* awaits it (an exception is logged); the next iteration starts after that
run_scheduler ==
    /\ pc["sched"] = "idle"
    /\ cycles < MaxCycles
    /\ pc' = [pc EXCEPT !["sched"] = "start"]
    /\ raised' = [raised EXCEPT !["sched"] = "none"]
    /\ UNCHANGED <<fetches, watch_list, logs, admin_token, pending, watchlist, data,
                   sent, cycles, response, request, requests>>

\* force_check_now, line 112: the request passes when ADMIN_TOKEN is not set
\* or the header equals it
Authorized(token) == ~(admin_token # "none" /\ token # admin_token)

\* POST /force-check with header X-Admin-Token = token
force_check_now(token) ==
    IF ~Authorized(token)
    THEN /\ response' = [status |-> 403, x_admin_token |-> token]
         /\ UNCHANGED <<fetches, watch_list, logs, admin_token, pending, pc, watchlist,
                        data, sent, raised, cycles, request, requests>>
    ELSE /\ pc["force"] = "idle"
         /\ cycles < MaxCycles
         /\ pc' = [pc EXCEPT !["force"] = "start"]
         /\ raised' = [raised EXCEPT !["force"] = "none"]
         /\ response' = [status |-> 200, x_admin_token |-> token]
         /\ UNCHANGED <<fetches, watch_list, logs, admin_token, pending, watchlist,
                        data, sent, cycles, request, requests>>

\* ------------------------------------------------------ engine.run_checks
\* Mutation of run_checks_begin: the empty test left out and the first item
\* taken by index, which raises on an empty list
run_checks_first_by_index(r) ==
    /\ pc[r] = "start"
    /\ cycles' = cycles + 1
    /\ IF get_watchlist(watch_list) = <<>>
       THEN Raise(r, "IndexError")
       ELSE /\ pc' = [pc EXCEPT ![r] = "fetch"]
            /\ watchlist' = [watchlist EXCEPT ![r] = get_watchlist(watch_list)]
            /\ UNCHANGED <<data, sent, raised>>
    /\ UNCHANGED <<fetches, watch_list, logs, admin_token, pending, response, request,
                   requests>>

\* lines 186-191: read the watch list; return at once when it is empty
run_checks_begin(r) ==
    /\ pc[r] = "start"
    /\ cycles' = cycles + 1
    /\ IF get_watchlist(watch_list) = <<>>
       THEN Return(r)
       ELSE /\ pc' = [pc EXCEPT ![r] = "fetch"]
            /\ watchlist' = [watchlist EXCEPT ![r] = get_watchlist(watch_list)]
            /\ UNCHANGED <<data, sent, raised>>
    /\ UNCHANGED <<fetches, watch_list, logs, admin_token, pending, response, request,
                   requests>>

\* Mutation of fetch_latest_snapshot: the `if data:` test left out, so that
\* check_crossover is entered with None as well
fetch_without_test(r, result) ==
    /\ pc[r] = "fetch"
    /\ fetches' = fetches + 1
    /\ data' = [data EXCEPT ![r] = result]
    /\ pc' = [pc EXCEPT ![r] = "check"]
    /\ UNCHANGED <<watch_list, logs, admin_token, pending, watchlist, sent, raised,
                   cycles, response, request, requests>>

\* Mutation of fetch_latest_snapshot: a failed fetch goes straight on to the
\* next symbol (`continue` ahead of the sleep)
fetch_failure_continues(r, result) ==
    /\ pc[r] = "fetch"
    /\ fetches' = fetches + 1
    /\ IF result.ok \/ Len(watchlist[r]) = 1
       THEN /\ data' = [data EXCEPT ![r] = result]
            /\ pc' = [pc EXCEPT ![r] = IF result.ok THEN "check" ELSE "sleep"]
            /\ UNCHANGED watchlist
       ELSE /\ watchlist' = [watchlist EXCEPT ![r] = Tail(watchlist[r])]
            /\ UNCHANGED <<data, pc>>
    /\ UNCHANGED <<watch_list, logs, admin_token, pending, sent, raised, cycles,
                   response, request, requests>>

\* line 195: fetch_latest_snapshot returns a snapshot, or None on any error;
\* line 196: `if data:` skips check_crossover for None
fetch_latest_snapshot(r, result) ==
    /\ pc[r] = "fetch"
    /\ fetches' = fetches + 1
    /\ data' = [data EXCEPT ![r] = result]
    /\ pc' = [pc EXCEPT ![r] = IF result.ok THEN "check" ELSE "sleep"]
    /\ UNCHANGED <<watch_list, logs, admin_token, pending, watchlist, sent, raised,
                   cycles, response, request, requests>>

\* The write of update_market_state by runner r: it raises when the row was
\* deleted (NotFoundError) or when the database refuses the write
WriteState(r, db_ok) ==
    IF db_ok /\ Item(r).symbol \in DOMAIN watch_list
    THEN /\ watch_list' = update_market_state(watch_list, Item(r).symbol,
                                              data[r].price, data[r].dma)
         /\ pending' = [pending EXCEPT ![Item(r).symbol] = "none"]
         /\ pc' = [pc EXCEPT ![r] = "sleep"]
         /\ UNCHANGED <<watchlist, data, sent, raised>>
    ELSE /\ Raise(r, IF db_ok THEN "NotFoundError" ELSE "DatabaseError")
         /\ UNCHANGED <<watch_list, pending>>

\* Mutation of trigger: a failed delivery raises out of _trigger
trigger_delivery_raises(r, alert_type, db_ok, credentials, smtp_ok) ==
    IF db_ok
    THEN /\ logs' = add_log(logs, Item(r).symbol, alert_type)
         /\ IF send_alert_email(data[r].price, data[r].dma, credentials, smtp_ok)
            THEN /\ sent' = [sent EXCEPT ![r] = "delivered"]
                 /\ pc' = [pc EXCEPT ![r] = "update"]
                 /\ UNCHANGED <<watchlist, data, raised>>
            ELSE Raise(r, "SMTPException")
    ELSE /\ Raise(r, "DatabaseError")
         /\ UNCHANGED logs

\* _trigger: add_log, then send_alert_email whose result is dropped
trigger(r, alert_type, db_ok, credentials, smtp_ok) ==
    IF db_ok
    THEN /\ logs' = add_log(logs, Item(r).symbol, alert_type)
         /\ sent' = [sent EXCEPT ![r] =
                IF send_alert_email(data[r].price, data[r].dma, credentials, smtp_ok)
                THEN "delivered" ELSE "failed"]
         /\ pc' = [pc EXCEPT ![r] = "update"]
         /\ UNCHANGED <<watchlist, data, raised>>
    ELSE /\ Raise(r, "DatabaseError")
         /\ UNCHANGED logs

\* Mutation of check_crossover: the superseded policy again, with the log
\* line kept: a weak cross is reported as ignored, yet the snapshot is stored
check_crossover_weak_stores(r, db_ok, credentials, smtp_ok) ==
    /\ pc[r] = "check"
    /\ LET o == Outcome(Item(r), data[r]) IN
       CASE o \in {"Bootstrap", "NoCross"} ->
              /\ WriteState(r, db_ok)
              /\ UNCHANGED logs
         [] o = "WeakCross" ->
              /\ pc' = [pc EXCEPT ![r] = "sleep"]
              /\ watch_list' = update_market_state(watch_list, Item(r).symbol,
                                                   data[r].price, data[r].dma)
              /\ pending' = [pending EXCEPT ![Item(r).symbol] =
                     IF crossed_above(Item(r), data[r])
                     THEN "BULLISH" ELSE "BEARISH"]
              /\ UNCHANGED <<logs, watchlist, data, sent, raised>>
         [] o = "ZeroDivisionError" ->
              /\ Raise(r, "ZeroDivisionError")
              /\ UNCHANGED <<watch_list, logs, pending>>
         [] o \in {"BULLISH", "BEARISH"} ->
              /\ Len(logs) < MaxLogs
              /\ trigger(r, o, db_ok, credentials, smtp_ok)
              /\ UNCHANGED <<watch_list, pending>>
    /\ UNCHANGED <<fetches, admin_token, cycles, response, request, requests>>

\* check_crossover up to and including its first database statement
check_crossover(r, db_ok, credentials, smtp_ok) ==
    /\ pc[r] = "check"
    /\ LET o == Outcome(Item(r), data[r]) IN
       CASE o \in {"Bootstrap", "NoCross"} ->
              /\ WriteState(r, db_ok)
              /\ UNCHANGED logs
         [] o = "WeakCross" ->
              /\ pc' = [pc EXCEPT ![r] = "sleep"]
              /\ pending' = [pending EXCEPT ![Item(r).symbol] =
                     IF crossed_above(Item(r), data[r])
                     THEN "BULLISH" ELSE "BEARISH"]
              /\ UNCHANGED <<watch_list, logs, watchlist, data, sent, raised>>
         [] o = "ZeroDivisionError" ->
              /\ Raise(r, "ZeroDivisionError")
              /\ UNCHANGED <<watch_list, logs, pending>>
         [] o \in {"BULLISH", "BEARISH"} ->
              /\ Len(logs) < MaxLogs
              /\ trigger(r, o, db_ok, credentials, smtp_ok)
              /\ UNCHANGED <<watch_list, pending>>
    /\ UNCHANGED <<fetches, admin_token, cycles, response, request, requests>>

\* lines 164 and 170: the state update that follows _trigger
update_after_trigger(r, db_ok) ==
    /\ pc[r] = "update"
    /\ WriteState(r, db_ok)
    /\ UNCHANGED <<fetches, logs, admin_token, cycles, response, request,
                   requests>>

\* line 198: time.sleep(RATE_LIMIT_DELAY), then the next item or the end
rate_limit_sleep(r) ==
    /\ pc[r] = "sleep"
    /\ IF Len(watchlist[r]) > 1
       THEN /\ pc' = [pc EXCEPT ![r] = "fetch"]
            /\ watchlist' = [watchlist EXCEPT ![r] = Tail(watchlist[r])]
            /\ data' = [data EXCEPT ![r] = None]
            /\ sent' = [sent EXCEPT ![r] = "none"]
            /\ UNCHANGED raised
       ELSE Return(r)
    /\ UNCHANGED <<fetches, watch_list, logs, admin_token, pending, cycles, response,
                   request, requests>>

\* ------------------------------------------------- watch-list endpoints
\* database.add_to_watchlist, lines 31-47: build the record, read the
\* existing row to carry its last_price / last_dma over
add_to_watchlist_read(symbol, alert_threshold) ==
    /\ ~request.active
    /\ requests < MaxRequests
    /\ requests' = requests + 1
    /\ request' = [active |-> TRUE, symbol |-> symbol,
                   alert_threshold |-> alert_threshold,
                   last_price |-> IF symbol \in DOMAIN watch_list
                                  THEN watch_list[symbol].last_price ELSE 0,
                   last_dma |-> IF symbol \in DOMAIN watch_list
                                THEN watch_list[symbol].last_dma ELSE 0]
    /\ UNCHANGED <<fetches, watch_list, logs, admin_token, pending, pc, watchlist, data,
                   sent, raised, cycles, response>>

\* database.add_to_watchlist, line 49: table.upsert(record, pk="symbol")
add_to_watchlist_upsert ==
    /\ request.active
    /\ watch_list' = [s \in DOMAIN watch_list \cup {request.symbol} |->
                        IF s = request.symbol
                        THEN [alert_threshold |-> request.alert_threshold,
                              last_price |-> request.last_price,
                              last_dma |-> request.last_dma]
                        ELSE watch_list[s]]
    /\ request' = NoRequest
    /\ UNCHANGED <<fetches, logs, admin_token, pending, pc, watchlist, data, sent,
                   raised, cycles, response, requests>>

\* database.remove_from_watchlist: delete the row; False when it is absent
remove_from_watchlist(symbol) ==
    /\ requests < MaxRequests
    /\ requests' = requests + 1
    /\ watch_list' = [s \in DOMAIN watch_list \ {symbol} |-> watch_list[s]]
    /\ pending' = [pending EXCEPT ![symbol] = "none"]
    /\ UNCHANGED <<fetches, logs, admin_token, pc, watchlist, data, sent,
                   raised, cycles, response, request>>

Snapshots == {None} \cup {Snapshot(p, d) : p \in Values, d \in Values}

Next ==
    \/ run_scheduler
    \/ \E token \in Tokens : force_check_now(token)
    \/ \E r \in Runners : run_checks_begin(r)
    \/ /\ fetches < MaxFetches
       /\ \E r \in Runners, result \in Snapshots : fetch_latest_snapshot(r, result)
    \/ \E r \in Runners, db_ok, credentials, smtp_ok \in BOOLEAN :
          check_crossover(r, db_ok, credentials, smtp_ok)
    \/ \E r \in Runners, db_ok \in BOOLEAN : update_after_trigger(r, db_ok)
    \/ \E r \in Runners : rate_limit_sleep(r)
    \/ \E symbol \in Symbols, alert_threshold \in Thresholds :
          add_to_watchlist_read(symbol, alert_threshold)
    \/ add_to_watchlist_upsert
    \/ \E symbol \in Symbols : remove_from_watchlist(symbol)

Spec == Init /\ [][Next]_vars

\* ------------------------------------------------------------------------
\* The scheduler alone over a database file left by earlier runs: symbol A
\* may be absent or hold any row (the zeroed pair or any pair a snapshot can
\* have written), symbol B may be absent or freshly subscribed.  No request
\* arrives and no forced pass runs.
Rows == [alert_threshold : Thresholds, last_price : Values, last_dma : Values]
FreshRows == [alert_threshold : Thresholds, last_price : {0}, last_dma : {0}]
Tables ==
    UNION {{t \in [S -> Rows] : "B" \in S => t["B"] \in FreshRows} :
              S \in SUBSET Symbols}

StoredInit ==
    /\ watch_list \in Tables
    /\ fetches = 0
    /\ logs = <<>>
    /\ admin_token = "none"
    /\ pc = [r \in Runners |-> "idle"]
    /\ watchlist = [r \in Runners |-> <<>>]
    /\ data = [r \in Runners |-> None]
    /\ sent = [r \in Runners |-> "none"]
    /\ raised = [r \in Runners |-> "none"]
    /\ cycles = 0
    /\ response = NoResponse
    /\ request = NoRequest
    /\ requests = 0
    /\ pending = [s \in Symbols |-> "none"]

CycleNext ==
    \/ run_scheduler
    \/ run_checks_begin("sched")
    \/ \E result \in Snapshots : fetch_latest_snapshot("sched", result)
    \/ \E db_ok, credentials, smtp_ok \in BOOLEAN :
          check_crossover("sched", db_ok, credentials, smtp_ok)
    \/ \E db_ok \in BOOLEAN : update_after_trigger("sched", db_ok)
    \/ rate_limit_sleep("sched")

CycleSpec == StoredInit /\ [][CycleNext]_vars

\* ========================================================================
\* Properties
\* ========================================================================
\* The persisted row of the symbol runner r is working on; Item(r) is the
\* entry the pass read for it, the prev of check_crossover
Prev(r) == watch_list[Item(r).symbol]
HasRow(r) == Item(r).symbol \in DOMAIN watch_list

NonSentinel(prev) == prev.last_price # 0 /\ prev.last_dma # 0
IsCrossing(prev, curr) ==
    \/ prev.last_price < prev.last_dma /\ curr.price > curr.dma
    \/ prev.last_price > prev.last_dma /\ curr.price < curr.dma
SameSide(prev, curr) ==
    \/ prev.last_price < prev.last_dma /\ curr.price < curr.dma
    \/ prev.last_price >= prev.last_dma /\ curr.price >= curr.dma
\* |curr.price - curr.average| / curr.average compared with threshold/100
DistanceUnder(curr, threshold) ==
    curr.dma > 0 /\ Abs(curr.price - curr.dma) * 100 < threshold * curr.dma
DistanceAtLeast(curr, threshold) ==
    curr.dma > 0 /\ Abs(curr.price - curr.dma) * 100 >= threshold * curr.dma
Direction(prev) ==
    IF prev.last_price < prev.last_dma THEN "BULLISH" ELSE "BEARISH"
HoldsPair(row, curr) ==
    row.last_price = curr.price /\ row.last_dma = curr.dma

\* C1: a crossing whose distance is strictly under the threshold, met by an
\* entry whose pair is non-zero, records no alert and leaves the whole
\* watch_list table, so the entry's lastPrice and lastAverage, as it was.
WeakCrossHoldsState ==
    [][\A r \in Runners :
         ( /\ pc[r] = "check" /\ pc'[r] # "check"
           /\ NonSentinel(Item(r))
           /\ IsCrossing(Item(r), data[r])
           /\ DistanceUnder(data[r], Item(r).alert_threshold) )
         => /\ logs' = logs
            /\ watch_list' = watch_list
            /\ pc'[r] = "sleep"]_vars

\* C1 witness: a runner has just dealt with a weak cross; the row still holds
\* the pair from before the crossing.
WeakCrossHeld ==
    \E r \in Runners :
        /\ pc[r] = "sleep" /\ data[r].ok
        /\ HasRow(r)
        /\ NonSentinel(Prev(r))
        /\ Prev(r).last_price = Item(r).last_price
        /\ Prev(r).last_dma = Item(r).last_dma
        /\ IsCrossing(Prev(r), data[r])
        /\ DistanceUnder(data[r], Prev(r).alert_threshold)

\* C2: a crossing whose distance is at least the threshold (equality
\* included), met by a non-sentinel entry, appends exactly one log record of
\* the crossing's direction, and the state update that follows stores the
\* current price and average without another record; both unless the
\* database raises.
QualifyingCrossAlerts ==
    [][\A r \in Runners :
         /\ ( /\ pc[r] = "check" /\ pc'[r] # "check"
              /\ raised'[r] = "none"
              /\ NonSentinel(Item(r))
              /\ IsCrossing(Item(r), data[r])
              /\ DistanceAtLeast(data[r], Item(r).alert_threshold) )
            => /\ logs' = Append(logs, [symbol |-> Item(r).symbol,
                                        alert_type |-> Direction(Item(r))])
               /\ watch_list' = watch_list
               /\ pc'[r] = "update"
         /\ ( /\ pc[r] = "update" /\ pc'[r] # "update"
              /\ raised'[r] = "none" )
            => /\ logs' = logs
               /\ HoldsPair(watch_list'[Item(r).symbol], data[r])
               /\ pc'[r] = "sleep"]_vars

\* C2 witness: a bullish alert whose distance equals the threshold has been
\* logged and the row advanced.
QualifyingCrossAlerted ==
    \E r \in Runners :
        /\ pc[r] = "sleep" /\ sent[r] # "none"
        /\ HasRow(r)
        /\ NonSentinel(Item(r))
        /\ Item(r).last_price < Item(r).last_dma
        /\ Item(r).alert_threshold = 100
        /\ Abs(data[r].price - data[r].dma) * 100 = 100 * data[r].dma
        /\ logs # <<>>
        /\ logs[Len(logs)] = [symbol |-> Item(r).symbol, alert_type |-> "BULLISH"]
        /\ HoldsPair(Prev(r), data[r])

\* C3: at most one pass of run_checks is inside its loop at any time.
CycleMutualExclusion ==
    \A r1, r2 \in Runners :
        (pc[r1] \notin {"idle", "start"} /\ pc[r2] \notin {"idle", "start"})
            => r1 = r2

\* C4: when the entry's lastPrice or lastAverage is 0, check_crossover
\* records no alert whatever the snapshot, and, unless the database raises,
\* stores the current price and average.
BootstrapNeverAlerts ==
    [][\A r \in Runners :
         ( /\ pc[r] = "check" /\ pc'[r] # "check"
           /\ (Item(r).last_price = 0 \/ Item(r).last_dma = 0) )
         => /\ logs' = logs
            /\ raised'[r] = "none" =>
                 /\ HoldsPair(watch_list'[Item(r).symbol], data[r])
                 /\ pc'[r] = "sleep"]_vars

\* C4 witness: an entry with an unset pair met a snapshot above its average
\* and was seeded with it, the log still empty.
BootstrapSeeded ==
    \E r \in Runners :
        /\ pc[r] = "sleep" /\ data[r].ok
        /\ HasRow(r)
        /\ (Item(r).last_price = 0 \/ Item(r).last_dma = 0)
        /\ data[r].price > data[r].dma /\ data[r].dma > 0
        /\ HoldsPair(Prev(r), data[r])
        /\ logs = <<>>

\* C5: when price - average has the same sign before and now (both strictly
\* below, or both not below) for a non-sentinel entry, check_crossover
\* records no alert and, unless the database raises, stores the current pair.
NoCrossAdvances ==
    [][\A r \in Runners :
         ( /\ pc[r] = "check" /\ pc'[r] # "check"
           /\ NonSentinel(Item(r))
           /\ SameSide(Item(r), data[r]) )
         => /\ logs' = logs
            /\ raised'[r] = "none" =>
                 /\ HoldsPair(watch_list'[Item(r).symbol], data[r])
                 /\ pc'[r] = "sleep"]_vars

\* C5 witness: a non-sentinel entry met a different snapshot on the same
\* side and now holds it.
NoCrossAdvanced ==
    \E r \in Runners :
        /\ pc[r] = "sleep" /\ data[r].ok
        /\ HasRow(r)
        /\ NonSentinel(Item(r))
        /\ SameSide(Item(r), data[r])
        /\ ~HoldsPair(Item(r), data[r])
        /\ HoldsPair(Prev(r), data[r])

\* The persisted state of a row as the state machine of the specification
\* names it, equality counting as Above
Side(row) ==
    IF row.last_price = 0 \/ row.last_dma = 0 THEN "Unset"
    ELSE IF row.last_price < row.last_dma THEN "Below" ELSE "Above"

\* The same with equality kept apart
StrictSide(row) ==
    IF row.last_price = 0 \/ row.last_dma = 0 THEN "Unset"
    ELSE IF row.last_price < row.last_dma THEN "Below"
    ELSE IF row.last_price > row.last_dma THEN "Above" ELSE "Level"

\* The step that completes an alert for symbol s: the state update after
\* _trigger has logged it
AlertCompletes(s) ==
    \E r \in Runners :
        pc[r] = "update" /\ pc'[r] = "sleep" /\ Item(r).symbol = s

\* The step that bootstraps symbol s
BootstrapStep(s) ==
    \E r \in Runners :
        /\ pc[r] = "check" /\ pc'[r] = "sleep" /\ Item(r).symbol = s
        /\ (Item(r).last_price = 0 \/ Item(r).last_dma = 0)

\* A weak-cross step of some runner
WeakCrossStep ==
    \E r \in Runners :
        /\ pc[r] = "check" /\ pc'[r] # "check"
        /\ HasRow(r)
        /\ NonSentinel(Prev(r))
        /\ IsCrossing(Prev(r), data[r])
        /\ DistanceUnder(data[r], Prev(r).alert_threshold)

\* C6 as claimed: with equality counted as Above, a row goes from Below to
\* Above or back only in the step completing an alert for it, a weak cross
\* changes nothing, and Unset is left only by a bootstrap.
SideChangesOnlyOnAlert ==
    [][/\ \A s \in DOMAIN watch_list \cap DOMAIN watch_list' :
            /\ {Side(watch_list[s]), Side(watch_list'[s])} = {"Below", "Above"}
                   => AlertCompletes(s)
            /\ (Side(watch_list[s]) = "Unset" /\ Side(watch_list'[s]) # "Unset")
                   => BootstrapStep(s)
       /\ WeakCrossStep => watch_list' = watch_list]_vars

\* C6 as amended: with equality a state of its own (Level), a call of
\* check_crossover given an entry that is Below stores a pair that is Above,
\* or given Above stores Below, only in the state update that follows the
\* logging of an alert of that direction for the symbol; whatever a call
\* stores is the current pair; a call given an Unset entry stores it without
\* an alert; a weak cross stores nothing.
StrictSideChangesOnlyOnAlert ==
    [][/\ \A r \in Runners :
            ( /\ pc[r] \in {"check", "update"} /\ pc'[r] = "sleep"
              /\ watch_list' # watch_list )
            => /\ HoldsPair(watch_list'[Item(r).symbol], data[r])
               /\ {StrictSide(Item(r)), StrictSide(watch_list'[Item(r).symbol])}
                       = {"Below", "Above"}
                    => /\ pc[r] = "update"
                       /\ \E i \in 1..Len(logs) :
                            logs[i] = [symbol |-> Item(r).symbol,
                                       alert_type |-> Direction(Item(r))]
               /\ StrictSide(Item(r)) = "Unset"
                    => pc[r] = "check" /\ logs' = logs
       /\ \A r \in Runners :
            ( /\ pc[r] = "check" /\ pc'[r] # "check"
              /\ NonSentinel(Item(r))
              /\ IsCrossing(Item(r), data[r])
              /\ DistanceUnder(data[r], Item(r).alert_threshold) )
            => watch_list' = watch_list]_vars

\* C6 witness: an alert has moved a row from strictly Below to strictly Above.
SideChangedOnAlert ==
    \E r \in Runners :
        /\ pc[r] = "sleep" /\ sent[r] # "none"
        /\ HasRow(r)
        /\ StrictSide(Item(r)) = "Below"
        /\ StrictSide(Prev(r)) = "Above"

\* C7: a snapshot whose average is 0, met by a non-sentinel entry, raises no
\* division error, records no alert and, unless the database raises, is
\* stored as the entry's pair.
ZeroAverageNeverRaises ==
    [][\A r \in Runners :
         ( /\ pc[r] = "check" /\ pc'[r] # "check"
           /\ NonSentinel(Item(r))
           /\ data[r].dma = 0 )
         => /\ raised'[r] # "ZeroDivisionError"
            /\ logs' = logs
            /\ raised'[r] = "none" =>
                 /\ HoldsPair(watch_list'[Item(r).symbol], data[r])
                 /\ pc'[r] = "sleep"]_vars

\* C8: a failure while one symbol is processed leaves the pass running: when
\* symbols are left after the one in hand, the runner goes on to its delay
\* and from there to the next fetch, never out of the pass.
FailureIsolation ==
    [][\A r \in Runners :
         (pc[r] \in {"check", "update"} /\ Len(watchlist[r]) > 1)
            => pc'[r] \in {"check", "update", "sleep"}]_vars

\* C9: a failed fetch changes neither table, sends the runner to its delay
\* with the same list, and the delay then moves on to the next symbol (the
\* failed one is not in what is left) or ends the pass without an exception.
FetchFailureSkipsSymbol ==
    [][\A r \in Runners :
         /\ (pc[r] = "fetch" /\ pc'[r] # "fetch" /\ ~data'[r].ok)
            => /\ watch_list' = watch_list
               /\ logs' = logs
               /\ pc'[r] = "sleep"
               /\ watchlist'[r] = watchlist[r]
               /\ raised'[r] = "none"
         /\ (pc[r] = "sleep" /\ pc'[r] # "sleep" /\ ~data[r].ok)
            => /\ watch_list' = watch_list
               /\ logs' = logs
               /\ raised'[r] = "none"
               /\ \A i \in 1..Len(watchlist'[r]) :
                      watchlist'[r][i].symbol # Item(r).symbol
               /\ IF Len(watchlist[r]) > 1
                  THEN pc'[r] = "fetch" /\ watchlist'[r] = Tail(watchlist[r])
                  ELSE pc'[r] = "idle"]_vars

\* C9 witness: a fetch has failed for a symbol that is not the last of the
\* pass.
FetchFailedMidPass ==
    \E r \in Runners :
        pc[r] = "sleep" /\ ~data[r].ok /\ Len(watchlist[r]) > 1

\* C10: once _trigger has logged an alert the runner reaches the state
\* update whatever send_alert_email returned; after a failed or skipped
\* delivery that update, unless the database raises, stores the current pair
\* and keeps the log, and the delay that follows goes on without an exception.
DeliveryFailureContained ==
    [][\A r \in Runners :
         /\ (pc[r] = "check" /\ logs' # logs)
            => /\ pc'[r] = "update"
               /\ sent'[r] \in {"delivered", "failed"}
               /\ raised'[r] = "none"
         /\ (pc[r] = "update" /\ pc'[r] # "update" /\ sent[r] = "failed"
                /\ raised'[r] = "none")
            => /\ HoldsPair(watch_list'[Item(r).symbol], data[r])
               /\ logs' = logs
               /\ pc'[r] = "sleep"
         /\ (pc[r] = "sleep" /\ pc'[r] # "sleep" /\ sent[r] = "failed")
            => /\ raised'[r] = "none"
               /\ logs' = logs
               /\ pc'[r] = IF Len(watchlist[r]) > 1 THEN "fetch" ELSE "idle"]_vars

\* C10 witness: the delivery failed, the alert is in the log and the row
\* holds the current pair.
DeliveryFailedStateAdvanced ==
    \E r \in Runners :
        /\ pc[r] = "sleep" /\ sent[r] = "failed"
        /\ HasRow(r)
        /\ HoldsPair(Prev(r), data[r])
        /\ logs # <<>>
        /\ logs[Len(logs)].symbol = Item(r).symbol

\* C11: when the snapshot a call is given is the pair its entry already holds
\* (the observation persisted by an earlier NoCross or Alert, seen again),
\* neither crossing test is true: the call takes the NoCross branch (the
\* Bootstrap branch when the pair contains a 0), records no alert, raises no
\* division error and, unless the database raises, leaves the entry holding
\* that pair.
RepeatedObservationIsNoCross ==
    [][\A r \in Runners :
         ( /\ pc[r] = "check" /\ pc'[r] # "check"
           /\ HoldsPair(Item(r), data[r]) )
         => /\ Outcome(Item(r), data[r]) =
                  IF NonSentinel(Item(r)) THEN "NoCross" ELSE "Bootstrap"
            /\ logs' = logs
            /\ raised'[r] # "ZeroDivisionError"
            /\ raised'[r] = "none" =>
                 /\ HoldsPair(watch_list'[Item(r).symbol], data[r])
                 /\ pc'[r] = "sleep"]_vars

\* C11 witness: the first pass alerted on a bullish crossing of the symbol
\* and stored it; the second pass fetched the same observation again and the
\* log still holds that one record.
RepeatedObservationSeen ==
    \E r \in Runners :
        /\ cycles = 2
        /\ pc[r] = "sleep" /\ data[r].ok
        /\ HasRow(r)
        /\ NonSentinel(Item(r))
        /\ HoldsPair(Item(r), data[r])
        /\ HoldsPair(Prev(r), data[r])
        /\ Item(r).last_price > Item(r).last_dma
        /\ logs = <<[symbol |-> Item(r).symbol, alert_type |-> "BULLISH"]>>

\* C12: a call whose entry or whose snapshot has price equal to average
\* records no alert and raises no division error, for every threshold; in
\* particular a non-sentinel entry strictly below its average that meets a
\* snapshot with price = average is a NoCross: unless the database raises,
\* the snapshot is stored.
EqualityNeverAlerts ==
    [][\A r \in Runners :
         /\ ( /\ pc[r] = "check" /\ pc'[r] # "check"
              /\ \/ Item(r).last_price = Item(r).last_dma
                 \/ data[r].price = data[r].dma )
            => /\ logs' = logs
               /\ pc'[r] # "update"
               /\ raised'[r] # "ZeroDivisionError"
         /\ ( /\ pc[r] = "check" /\ pc'[r] # "check"
              /\ NonSentinel(Item(r))
              /\ Item(r).last_price < Item(r).last_dma
              /\ data[r].price = data[r].dma )
            => /\ Outcome(Item(r), data[r]) = "NoCross"
               /\ raised'[r] = "none" =>
                    /\ HoldsPair(watch_list'[Item(r).symbol], data[r])
                    /\ pc'[r] = "sleep"]_vars

\* C12 witness: an entry strictly below its average, with threshold 0, met a
\* snapshot with price = average > 0; the row holds it and the log is empty.
BelowToLevelAdvanced ==
    \E r \in Runners :
        /\ pc[r] = "sleep" /\ data[r].ok
        /\ HasRow(r)
        /\ NonSentinel(Item(r))
        /\ Item(r).last_price < Item(r).last_dma
        /\ Item(r).alert_threshold = 0
        /\ data[r].price = data[r].dma /\ data[r].dma > 0
        /\ HoldsPair(Prev(r), data[r])
        /\ logs = <<>>

Pair(row) == <<row.last_price, row.last_dma>>

\* C13: every step that gives a watch entry a pair it did not hold before
\* writes both fields at once, and what it writes is the zeroed pair, the
\* (price, average) of one snapshot that a runner fetched for that symbol, or
\* the pair a subscribe request read from that symbol's own row; and the pair
\* a request carries is the one its symbol's row held when it was read (the
\* zeroed pair for a new symbol).  By induction from the empty table every
\* stored pair is the zeroed one or that of a single observation.
ConsistentPairWrites ==
    [][/\ \A s \in DOMAIN watch_list' :
            (s \notin DOMAIN watch_list \/ Pair(watch_list'[s]) # Pair(watch_list[s]))
            => \/ Pair(watch_list'[s]) = <<0, 0>>
               \/ \E r \in Runners :
                     /\ pc[r] \in {"check", "update"}
                     /\ Item(r).symbol = s
                     /\ data[r].ok
                     /\ Pair(watch_list'[s]) = <<data[r].price, data[r].dma>>
               \/ /\ request.active /\ request.symbol = s
                  /\ Pair(watch_list'[s]) = Pair(request)
       /\ (request' # request /\ request'.active)
            => Pair(request') =
                  IF request'.symbol \in DOMAIN watch_list
                  THEN Pair(watch_list[request'.symbol]) ELSE <<0, 0>>]_vars

\* C13 witness: a runner stored a new snapshot for a symbol over a non-zero
\* pair, and a re-subscribe that had read the row before has since written
\* the older pair back: the row holds the pair the pass had read, whole.
OlderPairWrittenBack ==
    \E r \in Runners :
        /\ pc[r] = "sleep" /\ data[r].ok
        /\ HasRow(r)
        /\ NonSentinel(Item(r))
        /\ Outcome(Item(r), data[r]) = "NoCross"
        /\ Pair(Prev(r)) = Pair(Item(r))
        /\ Pair(Prev(r)) # <<data[r].price, data[r].dma>>
        /\ ~request.active

\* C14: within a pass the work is serial and every symbol is followed by the
\* delay.  A fetch is entered only from the start of the pass or from the
\* delay; it is for the head of the list and moves on to the decision (a
\* snapshot) or to the delay (a failure) with the list as it was; a decision
\* that does not raise ends in the delay, directly (Bootstrap, NoCross,
\* WeakCross) or through the state update of an Alert; only the delay drops
\* the head of the list, and it leads to the next fetch or ends the pass.
SerialRateLimitedCycle ==
    [][\A r \in Runners :
         /\ (pc'[r] = "fetch" /\ pc[r] # "fetch")
            => pc[r] \in {"start", "sleep"}
         /\ (pc[r] = "fetch" /\ pc'[r] # "fetch")
            => /\ pc'[r] = IF data'[r].ok THEN "check" ELSE "sleep"
               /\ watchlist'[r] = watchlist[r]
         /\ (pc[r] = "fetch" /\ pc'[r] = "fetch")
            => watchlist'[r] = watchlist[r]
         /\ (pc[r] = "check" /\ pc'[r] # "check" /\ raised'[r] = "none")
            => /\ pc'[r] = IF logs' # logs THEN "update" ELSE "sleep"
               /\ watchlist'[r] = watchlist[r]
         /\ (pc[r] = "update" /\ pc'[r] # "update" /\ raised'[r] = "none")
            => pc'[r] = "sleep" /\ watchlist'[r] = watchlist[r]
         /\ (pc[r] = "sleep" /\ pc'[r] # "sleep")
            => /\ fetches' = fetches
               /\ IF Len(watchlist[r]) > 1
                  THEN pc'[r] = "fetch" /\ watchlist'[r] = Tail(watchlist[r])
                  ELSE pc'[r] = "idle"]_vars

\* C14 witness: the first symbol of a pass ended in an alert, the delay was
\* taken, and the fetch of the second symbol is about to start.
SecondFetchAfterDelay ==
    /\ pc["sched"] = "fetch"
    /\ cycles = 1 /\ fetches = 1
    /\ Item("sched").symbol = "B"
    /\ Len(logs) = 1 /\ logs[1].symbol = "A"
    /\ data["sched"] = None

\* C15: a pass that starts while the watch_list table is empty returns at
\* once: no fetch, no write to either table, no exception, and the runner is
\* idle again with nothing left to process.
EmptyWatchSetNoOp ==
    [][\A r \in Runners :
         (pc[r] = "start" /\ pc'[r] # "start" /\ DOMAIN watch_list = {})
         => /\ pc'[r] = "idle"
            /\ raised'[r] = "none"
            /\ watchlist'[r] = <<>>
            /\ fetches' = fetches
            /\ watch_list' = watch_list
            /\ logs' = logs]_vars

\* C15 witness: a pass has run over the empty table and ended.
EmptyPassDone ==
    /\ cycles = 1
    /\ pc["sched"] = "idle"
    /\ DOMAIN watch_list = {}
    /\ fetches = 0
    /\ logs = <<>>
    /\ raised["sched"] = "none"

\* C16: a force-check request hands run_checks to a background thread only
\* when ADMIN_TOKEN is configured and the request's header equals it; a
\* request whose header is missing or wrong is answered 403 and starts
\* nothing.
ForceCheckAdminGated ==
    [][/\ (pc["force"] = "idle" /\ pc'["force"] = "start")
            => /\ admin_token # "none"
               /\ response'.x_admin_token = admin_token
       /\ (response' # response /\ response'.x_admin_token # "good")
            => /\ response'.status = 403
               /\ pc' = pc]_vars

\* C17: while a weak cross is pending for a symbol its entry keeps the pair
\* from before the crossing, on the side the crossing left, however many
\* weak ticks follow; and when a later snapshot is on the opposite side of
\* that held pair with a distance of at least the threshold, check_crossover
\* logs an alert of the pending direction and the state update that follows
\* stores the snapshot and ends the pending state (both unless the database
\* raises).
PendingWeakCrossNotErased ==
    [][/\ \A s \in DOMAIN watch_list :
            pending'[s] # "none"
            => /\ watch_list'[s] = watch_list[s]
               /\ NonSentinel(watch_list'[s])
               /\ pending'[s] = Direction(watch_list'[s])
               /\ watch_list'[s].last_price # watch_list'[s].last_dma
       /\ \A r \in Runners :
            /\ ( /\ pc[r] = "check" /\ pc'[r] # "check"
                 /\ pending[Item(r).symbol] # "none"
                 /\ IsCrossing(Prev(r), data[r])
                 /\ DistanceAtLeast(data[r], Prev(r).alert_threshold)
                 /\ raised'[r] = "none" )
               => /\ logs' = Append(logs, [symbol |-> Item(r).symbol,
                                           alert_type |-> pending[Item(r).symbol]])
                  /\ pc'[r] = "update"
            /\ ( /\ pc[r] = "update" /\ pc'[r] # "update"
                 /\ raised'[r] = "none" )
               => /\ HoldsPair(watch_list'[Item(r).symbol], data[r])
                  /\ pending'[Item(r).symbol] = "none"]_vars

\* C17 witness: the first pass ignored a bearish weak cross of the symbol;
\* the second pass met a snapshot still below the average, far enough, and
\* has logged the bearish alert against the held pair.
PendingCrossAlerted ==
    \E r \in Runners :
        /\ cycles = 2
        /\ pc[r] = "update"
        /\ pending[Item(r).symbol] = "BEARISH"
        /\ Prev(r).last_price > Prev(r).last_dma
        /\ data[r].price < data[r].dma
        /\ logs = <<[symbol |-> Item(r).symbol, alert_type |-> "BEARISH"]>>

\* C18: the log record of an alert and the state advance are applied
\* together: a runner that has recorded an alert leaves the alert branch
\* only with the entry holding the current pair, so that a recorded alert
\* never stands beside the pair from before the crossing, a failed state
\* write included.
AlertAppliedAtomically ==
    [][\A r \in Runners :
         (pc[r] = "update" /\ pc'[r] # "update")
         => /\ HasRow(r)
            /\ HoldsPair(watch_list'[Item(r).symbol], data[r])]_vars

\* C19: whenever a runner is about to decide for a symbol that is in the
\* table, the entry it was given holds the pair that is persisted for that
\* symbol at that moment.
DecisionUsesPersistedState ==
    \A r \in Runners :
        (pc[r] = "check" /\ HasRow(r))
        => Pair(Item(r)) = Pair(Prev(r))

\* C20: the upsert of a subscribe request for a symbol that is in the table
\* leaves the symbol's pair as it is persisted when the upsert runs, so that
\* an update a runner made after the request's read is not overwritten.
ResubscribeKeepsPersistedPair ==
    [][\A s \in DOMAIN watch_list :
         (request.active /\ ~request'.active /\ request.symbol = s)
         => Pair(watch_list'[s]) = Pair(watch_list[s])]_vars

\* C21: while a symbol is not in the watch_list table (its unsubscribe has
\* completed and no subscribe has yet written it again) no alert for it is
\* appended to logs, and only the upsert of a subscribe request for it
\* brings a row for it back.
NoAlertsAfterUnsubscribe ==
    [][/\ Len(logs') > Len(logs)
            => logs'[Len(logs')].symbol \in DOMAIN watch_list
       /\ \A s \in DOMAIN watch_list' \ DOMAIN watch_list :
            request.active /\ request.symbol = s /\ ~request'.active]_vars

====
